---- MODULE Spec2Model ----
(***************************************************************************)
(* Ride-request intake service (src/app.py) and the operator bot           *)
(* (src/bot.py), which share one Mongo collection.                         *)
(*                                                                         *)
(* Strings the code inspects character by character (phone, tg) are        *)
(* sequences of one-character strings.  Cyrillic literals of the source    *)
(* are written in Latin transliteration.  An ObjectId string is modelled   *)
(* by a number: MalformedId is a string ObjectId.is_valid rejects, n >= 1  *)
(* is the n-th ObjectId the Store generates.                               *)
(***************************************************************************)
EXTENDS Naturals, Integers, Sequences, FiniteSets, Bags, TLC

VARIABLES
    TELEGRAM_BOT_TOKEN,   \* app.py:26
    TELEGRAM_CHAT_ID,     \* app.py:27
    BOT_DELETE_TOKEN,     \* app.py:29
    BOT_ALLOWED,          \* bot.py:20
    col,                  \* the Mongo collection: a set of documents
    next_oid,             \* the next ObjectId the Store will assign
    created_seq,          \* submissions that read the clock for created_at
    inflight,             \* bag of handlers and background tasks suspended at an await
    last,                 \* what the latest step sent out (response, replies, task result)
    outbox,               \* bag of request ids, one copy per sendMessage call
    people_log,           \* people of every inserted document, in insertion order
    deleted,              \* ids removed from the collection so far
    tg_v,                 \* a raw tg value given to the tg field validator
    tg_seen,              \* the values normalize_tg returned, one per application
    phone_v,              \* a raw phone value given to the phone field validator
    phone_seen,           \* the values normalize_phone returned, one per application
    utc_minute,           \* the minute the wall clock shows
    answered              \* the {ok: true, id} responses sent to submitters

vars == <<TELEGRAM_BOT_TOKEN, TELEGRAM_CHAT_ID, BOT_DELETE_TOKEN, BOT_ALLOWED,
          col, next_oid, created_seq, inflight, last, outbox, people_log,
          deleted, tg_v, tg_seen, phone_v, phone_seen, utc_minute, answered>>

env == <<TELEGRAM_BOT_TOKEN, TELEGRAM_CHAT_ID, BOT_DELETE_TOKEN, BOT_ALLOWED>>
store == <<col, next_oid, people_log, deleted>>
tgvars == <<tg_v, tg_seen>>
phonevars == <<phone_v, phone_seen>>

---------------------------------------------------------------------------
(* Bounds *)

MaxInflight == 2      \* handlers / tasks suspended at the same time
MaxCreate == 2        \* submissions that reach the insert
MaxTgLen == 3         \* length of the tg inputs of SpecTg
MaxPhoneHead == 3     \* free characters at the start of the phone inputs of SpecPhone
MaxPhoneTail == 10    \* digits that follow them
MaxMinute == 1        \* minutes the wall clock advances

MalformedId == 0

Oids == 1..MaxCreate

---------------------------------------------------------------------------
(* Character-level helpers (str.strip, str.isdigit, str.startswith) *)

\* A string is a sequence of characters.  An ASCII character is written as
\* itself; any other is written by its code point ("U+0663"), one element of
\* the sequence per character.

\* the characters str.isspace() holds for, which str.strip() removes
Whitespace ==
    {" ", "\t", "\n", "\r", "\f", "U+000B", "U+001C", "U+001D", "U+001E", "U+001F",
     "U+0085", "U+00A0", "U+1680", "U+2000", "U+2001", "U+2002", "U+2003",
     "U+2004", "U+2005", "U+2006", "U+2007", "U+2008", "U+2009", "U+200A",
     "U+2028", "U+2029", "U+202F", "U+205F", "U+3000"}

AsciiDigit == {"0", "1", "2", "3", "4", "5", "6", "7", "8", "9"}

\* the decimal digits (category Nd) as the interpreter's str methods know
\* them (Unicode 14.0): the ASCII ones and those of every other script
PyDecimalDigit ==
    AsciiDigit \cup
    {
     "U+0660", "U+0661", "U+0662", "U+0663", "U+0664", "U+0665", "U+0666",
     "U+0667", "U+0668", "U+0669", "U+06F0", "U+06F1", "U+06F2", "U+06F3",
     "U+06F4", "U+06F5", "U+06F6", "U+06F7", "U+06F8", "U+06F9", "U+07C0",
     "U+07C1", "U+07C2", "U+07C3", "U+07C4", "U+07C5", "U+07C6", "U+07C7",
     "U+07C8", "U+07C9", "U+0966", "U+0967", "U+0968", "U+0969", "U+096A",
     "U+096B", "U+096C", "U+096D", "U+096E", "U+096F", "U+09E6", "U+09E7",
     "U+09E8", "U+09E9", "U+09EA", "U+09EB", "U+09EC", "U+09ED", "U+09EE",
     "U+09EF", "U+0A66", "U+0A67", "U+0A68", "U+0A69", "U+0A6A", "U+0A6B",
     "U+0A6C", "U+0A6D", "U+0A6E", "U+0A6F", "U+0AE6", "U+0AE7", "U+0AE8",
     "U+0AE9", "U+0AEA", "U+0AEB", "U+0AEC", "U+0AED", "U+0AEE", "U+0AEF",
     "U+0B66", "U+0B67", "U+0B68", "U+0B69", "U+0B6A", "U+0B6B", "U+0B6C",
     "U+0B6D", "U+0B6E", "U+0B6F", "U+0BE6", "U+0BE7", "U+0BE8", "U+0BE9",
     "U+0BEA", "U+0BEB", "U+0BEC", "U+0BED", "U+0BEE", "U+0BEF", "U+0C66",
     "U+0C67", "U+0C68", "U+0C69", "U+0C6A", "U+0C6B", "U+0C6C", "U+0C6D",
     "U+0C6E", "U+0C6F", "U+0CE6", "U+0CE7", "U+0CE8", "U+0CE9", "U+0CEA",
     "U+0CEB", "U+0CEC", "U+0CED", "U+0CEE", "U+0CEF", "U+0D66", "U+0D67",
     "U+0D68", "U+0D69", "U+0D6A", "U+0D6B", "U+0D6C", "U+0D6D", "U+0D6E",
     "U+0D6F", "U+0DE6", "U+0DE7", "U+0DE8", "U+0DE9", "U+0DEA", "U+0DEB",
     "U+0DEC", "U+0DED", "U+0DEE", "U+0DEF", "U+0E50", "U+0E51", "U+0E52",
     "U+0E53", "U+0E54", "U+0E55", "U+0E56", "U+0E57", "U+0E58", "U+0E59",
     "U+0ED0", "U+0ED1", "U+0ED2", "U+0ED3", "U+0ED4", "U+0ED5", "U+0ED6",
     "U+0ED7", "U+0ED8", "U+0ED9", "U+0F20", "U+0F21", "U+0F22", "U+0F23",
     "U+0F24", "U+0F25", "U+0F26", "U+0F27", "U+0F28", "U+0F29", "U+1040",
     "U+1041", "U+1042", "U+1043", "U+1044", "U+1045", "U+1046", "U+1047",
     "U+1048", "U+1049", "U+1090", "U+1091", "U+1092", "U+1093", "U+1094",
     "U+1095", "U+1096", "U+1097", "U+1098", "U+1099", "U+17E0", "U+17E1",
     "U+17E2", "U+17E3", "U+17E4", "U+17E5", "U+17E6", "U+17E7", "U+17E8",
     "U+17E9", "U+1810", "U+1811", "U+1812", "U+1813", "U+1814", "U+1815",
     "U+1816", "U+1817", "U+1818", "U+1819", "U+1946", "U+1947", "U+1948",
     "U+1949", "U+194A", "U+194B", "U+194C", "U+194D", "U+194E", "U+194F",
     "U+19D0", "U+19D1", "U+19D2", "U+19D3", "U+19D4", "U+19D5", "U+19D6",
     "U+19D7", "U+19D8", "U+19D9", "U+1A80", "U+1A81", "U+1A82", "U+1A83",
     "U+1A84", "U+1A85", "U+1A86", "U+1A87", "U+1A88", "U+1A89", "U+1A90",
     "U+1A91", "U+1A92", "U+1A93", "U+1A94", "U+1A95", "U+1A96", "U+1A97",
     "U+1A98", "U+1A99", "U+1B50", "U+1B51", "U+1B52", "U+1B53", "U+1B54",
     "U+1B55", "U+1B56", "U+1B57", "U+1B58", "U+1B59", "U+1BB0", "U+1BB1",
     "U+1BB2", "U+1BB3", "U+1BB4", "U+1BB5", "U+1BB6", "U+1BB7", "U+1BB8",
     "U+1BB9", "U+1C40", "U+1C41", "U+1C42", "U+1C43", "U+1C44", "U+1C45",
     "U+1C46", "U+1C47", "U+1C48", "U+1C49", "U+1C50", "U+1C51", "U+1C52",
     "U+1C53", "U+1C54", "U+1C55", "U+1C56", "U+1C57", "U+1C58", "U+1C59",
     "U+A620", "U+A621", "U+A622", "U+A623", "U+A624", "U+A625", "U+A626",
     "U+A627", "U+A628", "U+A629", "U+A8D0", "U+A8D1", "U+A8D2", "U+A8D3",
     "U+A8D4", "U+A8D5", "U+A8D6", "U+A8D7", "U+A8D8", "U+A8D9", "U+A900",
     "U+A901", "U+A902", "U+A903", "U+A904", "U+A905", "U+A906", "U+A907",
     "U+A908", "U+A909", "U+A9D0", "U+A9D1", "U+A9D2", "U+A9D3", "U+A9D4",
     "U+A9D5", "U+A9D6", "U+A9D7", "U+A9D8", "U+A9D9", "U+A9F0", "U+A9F1",
     "U+A9F2", "U+A9F3", "U+A9F4", "U+A9F5", "U+A9F6", "U+A9F7", "U+A9F8",
     "U+A9F9", "U+AA50", "U+AA51", "U+AA52", "U+AA53", "U+AA54", "U+AA55",
     "U+AA56", "U+AA57", "U+AA58", "U+AA59", "U+ABF0", "U+ABF1", "U+ABF2",
     "U+ABF3", "U+ABF4", "U+ABF5", "U+ABF6", "U+ABF7", "U+ABF8", "U+ABF9",
     "U+FF10", "U+FF11", "U+FF12", "U+FF13", "U+FF14", "U+FF15", "U+FF16",
     "U+FF17", "U+FF18", "U+FF19", "U+104A0", "U+104A1", "U+104A2",
     "U+104A3", "U+104A4", "U+104A5", "U+104A6", "U+104A7", "U+104A8",
     "U+104A9", "U+10D30", "U+10D31", "U+10D32", "U+10D33", "U+10D34",
     "U+10D35", "U+10D36", "U+10D37", "U+10D38", "U+10D39", "U+11066",
     "U+11067", "U+11068", "U+11069", "U+1106A", "U+1106B", "U+1106C",
     "U+1106D", "U+1106E", "U+1106F", "U+110F0", "U+110F1", "U+110F2",
     "U+110F3", "U+110F4", "U+110F5", "U+110F6", "U+110F7", "U+110F8",
     "U+110F9", "U+11136", "U+11137", "U+11138", "U+11139", "U+1113A",
     "U+1113B", "U+1113C", "U+1113D", "U+1113E", "U+1113F", "U+111D0",
     "U+111D1", "U+111D2", "U+111D3", "U+111D4", "U+111D5", "U+111D6",
     "U+111D7", "U+111D8", "U+111D9", "U+112F0", "U+112F1", "U+112F2",
     "U+112F3", "U+112F4", "U+112F5", "U+112F6", "U+112F7", "U+112F8",
     "U+112F9", "U+11450", "U+11451", "U+11452", "U+11453", "U+11454",
     "U+11455", "U+11456", "U+11457", "U+11458", "U+11459", "U+114D0",
     "U+114D1", "U+114D2", "U+114D3", "U+114D4", "U+114D5", "U+114D6",
     "U+114D7", "U+114D8", "U+114D9", "U+11650", "U+11651", "U+11652",
     "U+11653", "U+11654", "U+11655", "U+11656", "U+11657", "U+11658",
     "U+11659", "U+116C0", "U+116C1", "U+116C2", "U+116C3", "U+116C4",
     "U+116C5", "U+116C6", "U+116C7", "U+116C8", "U+116C9", "U+11730",
     "U+11731", "U+11732", "U+11733", "U+11734", "U+11735", "U+11736",
     "U+11737", "U+11738", "U+11739", "U+118E0", "U+118E1", "U+118E2",
     "U+118E3", "U+118E4", "U+118E5", "U+118E6", "U+118E7", "U+118E8",
     "U+118E9", "U+11950", "U+11951", "U+11952", "U+11953", "U+11954",
     "U+11955", "U+11956", "U+11957", "U+11958", "U+11959", "U+11C50",
     "U+11C51", "U+11C52", "U+11C53", "U+11C54", "U+11C55", "U+11C56",
     "U+11C57", "U+11C58", "U+11C59", "U+11D50", "U+11D51", "U+11D52",
     "U+11D53", "U+11D54", "U+11D55", "U+11D56", "U+11D57", "U+11D58",
     "U+11D59", "U+11DA0", "U+11DA1", "U+11DA2", "U+11DA3", "U+11DA4",
     "U+11DA5", "U+11DA6", "U+11DA7", "U+11DA8", "U+11DA9", "U+16A60",
     "U+16A61", "U+16A62", "U+16A63", "U+16A64", "U+16A65", "U+16A66",
     "U+16A67", "U+16A68", "U+16A69", "U+16AC0", "U+16AC1", "U+16AC2",
     "U+16AC3", "U+16AC4", "U+16AC5", "U+16AC6", "U+16AC7", "U+16AC8",
     "U+16AC9", "U+16B50", "U+16B51", "U+16B52", "U+16B53", "U+16B54",
     "U+16B55", "U+16B56", "U+16B57", "U+16B58", "U+16B59", "U+1D7CE",
     "U+1D7CF", "U+1D7D0", "U+1D7D1", "U+1D7D2", "U+1D7D3", "U+1D7D4",
     "U+1D7D5", "U+1D7D6", "U+1D7D7", "U+1D7D8", "U+1D7D9", "U+1D7DA",
     "U+1D7DB", "U+1D7DC", "U+1D7DD", "U+1D7DE", "U+1D7DF", "U+1D7E0",
     "U+1D7E1", "U+1D7E2", "U+1D7E3", "U+1D7E4", "U+1D7E5", "U+1D7E6",
     "U+1D7E7", "U+1D7E8", "U+1D7E9", "U+1D7EA", "U+1D7EB", "U+1D7EC",
     "U+1D7ED", "U+1D7EE", "U+1D7EF", "U+1D7F0", "U+1D7F1", "U+1D7F2",
     "U+1D7F3", "U+1D7F4", "U+1D7F5", "U+1D7F6", "U+1D7F7", "U+1D7F8",
     "U+1D7F9", "U+1D7FA", "U+1D7FB", "U+1D7FC", "U+1D7FD", "U+1D7FE",
     "U+1D7FF", "U+1E140", "U+1E141", "U+1E142", "U+1E143", "U+1E144",
     "U+1E145", "U+1E146", "U+1E147", "U+1E148", "U+1E149", "U+1E2F0",
     "U+1E2F1", "U+1E2F2", "U+1E2F3", "U+1E2F4", "U+1E2F5", "U+1E2F6",
     "U+1E2F7", "U+1E2F8", "U+1E2F9", "U+1E950", "U+1E951", "U+1E952",
     "U+1E953", "U+1E954", "U+1E955", "U+1E956", "U+1E957", "U+1E958",
     "U+1E959", "U+1FBF0", "U+1FBF1", "U+1FBF2", "U+1FBF3", "U+1FBF4",
     "U+1FBF5", "U+1FBF6", "U+1FBF7", "U+1FBF8", "U+1FBF9"
    }

\* the characters str.isdigit() holds for and \d does not match:
\* superscripts, subscripts, circled and other digits that are not decimal
OtherDigit ==
    {
     "U+00B2", "U+00B3", "U+00B9", "U+1369", "U+136A", "U+136B", "U+136C",
     "U+136D", "U+136E", "U+136F", "U+1370", "U+1371", "U+19DA", "U+2070",
     "U+2074", "U+2075", "U+2076", "U+2077", "U+2078", "U+2079", "U+2080",
     "U+2081", "U+2082", "U+2083", "U+2084", "U+2085", "U+2086", "U+2087",
     "U+2088", "U+2089", "U+2460", "U+2461", "U+2462", "U+2463", "U+2464",
     "U+2465", "U+2466", "U+2467", "U+2468", "U+2474", "U+2475", "U+2476",
     "U+2477", "U+2478", "U+2479", "U+247A", "U+247B", "U+247C", "U+2488",
     "U+2489", "U+248A", "U+248B", "U+248C", "U+248D", "U+248E", "U+248F",
     "U+2490", "U+24EA", "U+24F5", "U+24F6", "U+24F7", "U+24F8", "U+24F9",
     "U+24FA", "U+24FB", "U+24FC", "U+24FD", "U+24FF", "U+2776", "U+2777",
     "U+2778", "U+2779", "U+277A", "U+277B", "U+277C", "U+277D", "U+277E",
     "U+2780", "U+2781", "U+2782", "U+2783", "U+2784", "U+2785", "U+2786",
     "U+2787", "U+2788", "U+278A", "U+278B", "U+278C", "U+278D", "U+278E",
     "U+278F", "U+2790", "U+2791", "U+2792", "U+10A40", "U+10A41", "U+10A42",
     "U+10A43", "U+10E60", "U+10E61", "U+10E62", "U+10E63", "U+10E64",
     "U+10E65", "U+10E66", "U+10E67", "U+10E68", "U+11052", "U+11053",
     "U+11054", "U+11055", "U+11056", "U+11057", "U+11058", "U+11059",
     "U+1105A", "U+1F100", "U+1F101", "U+1F102", "U+1F103", "U+1F104",
     "U+1F105", "U+1F106", "U+1F107", "U+1F108", "U+1F109", "U+1F10A"
    }

\* the characters str.isdigit() holds for
Digit == PyDecimalDigit \cup OtherDigit

\* the characters \d of a Field(pattern=...) matches: the pattern is matched
\* by pydantic-core's regex engine, whose Nd also holds the decimal digits
\* of Unicode 15.0 and 16.0 (Kawi, Nag Mundari, Garay, Myanmar Extended-C,
\* Sunuwar, Gurung Khema, Kirat Rai, outlined digits, Ol Onal)
DecimalDigit ==
    PyDecimalDigit \cup
    {
     "U+10D40", "U+10D41", "U+10D42", "U+10D43", "U+10D44", "U+10D45",
     "U+10D46", "U+10D47", "U+10D48", "U+10D49", "U+116D0", "U+116D1",
     "U+116D2", "U+116D3", "U+116D4", "U+116D5", "U+116D6", "U+116D7",
     "U+116D8", "U+116D9", "U+116DA", "U+116DB", "U+116DC", "U+116DD",
     "U+116DE", "U+116DF", "U+116E0", "U+116E1", "U+116E2", "U+116E3",
     "U+11BF0", "U+11BF1", "U+11BF2", "U+11BF3", "U+11BF4", "U+11BF5",
     "U+11BF6", "U+11BF7", "U+11BF8", "U+11BF9", "U+11F50", "U+11F51",
     "U+11F52", "U+11F53", "U+11F54", "U+11F55", "U+11F56", "U+11F57",
     "U+11F58", "U+11F59", "U+16130", "U+16131", "U+16132", "U+16133",
     "U+16134", "U+16135", "U+16136", "U+16137", "U+16138", "U+16139",
     "U+16D70", "U+16D71", "U+16D72", "U+16D73", "U+16D74", "U+16D75",
     "U+16D76", "U+16D77", "U+16D78", "U+16D79", "U+1CCF0", "U+1CCF1",
     "U+1CCF2", "U+1CCF3", "U+1CCF4", "U+1CCF5", "U+1CCF6", "U+1CCF7",
     "U+1CCF8", "U+1CCF9", "U+1E4F0", "U+1E4F1", "U+1E4F2", "U+1E4F3",
     "U+1E4F4", "U+1E4F5", "U+1E4F6", "U+1E4F7", "U+1E4F8", "U+1E4F9",
     "U+1E5F1", "U+1E5F2", "U+1E5F3", "U+1E5F4", "U+1E5F5", "U+1E5F6",
     "U+1E5F7", "U+1E5F8", "U+1E5F9", "U+1E5FA"
    }

isdigit(ch) == ch \in Digit

RECURSIVE lstrip(_)
lstrip(v) == IF v # <<>> /\ Head(v) \in Whitespace THEN lstrip(Tail(v)) ELSE v

RECURSIVE rstrip(_)
rstrip(v) ==
    IF v # <<>> /\ v[Len(v)] \in Whitespace THEN rstrip(SubSeq(v, 1, Len(v) - 1)) ELSE v

strip(v) == rstrip(lstrip(v))

startswith(v, ch) == v # <<>> /\ Head(v) = ch

DigitsOf(v) == SelectSeq(v, isdigit)

NotSpace(ch) == ch # " "

RECURSIVE Rep(_, _)
Rep(ch, n) == IF n = 0 THEN <<>> ELSE <<ch>> \o Rep(ch, n - 1)

---------------------------------------------------------------------------
(* Intake validator / normalizer: RideRequestIn and StartPoint *)

\* the "+" branch returning the raw value instead of its digits
normalize_phone_plus_raw(v0) ==
    LET v == strip(v0)
        digits == DigitsOf(v)
    IN  IF Len(digits) = 11 /\ startswith(digits, "8")
        THEN <<"+", "7">> \o Tail(digits)
        ELSE IF startswith(v, "+")
             THEN <<"+">> \o v
             ELSE digits

normalize_phone(v0) ==
    LET v == strip(v0)
        digits == DigitsOf(v)
    IN  IF Len(digits) = 11 /\ startswith(digits, "8")
        THEN <<"+", "7">> \o Tail(digits)
        ELSE IF startswith(v, "+")
             THEN <<"+">> \o digits
             ELSE digits

normalize_tg(v0) ==
    LET v == SelectSeq(strip(v0), NotSpace)
    IN  IF startswith(v, "@") THEN Tail(v) ELSE v

\* pattern ^\d{2}:\d{2}$ of earliest_time
time_pattern(v) ==
    /\ Len(v) = 5
    /\ v[1] \in DecimalDigit /\ v[2] \in DecimalDigit
    /\ v[3] = ":"
    /\ v[4] \in DecimalDigit /\ v[5] \in DecimalDigit

\* Field(...) constraints, checked on the raw value before the field validators
FieldsValid(raw) ==
    /\ Len(raw.name) >= 1 /\ Len(raw.name) <= 100
    /\ Len(raw.phone) >= 5 /\ Len(raw.phone) <= 32
    /\ Len(raw.tg) <= 64
    /\ raw.day \in {"30", "31"}
    /\ time_pattern(raw.earliest_time)
    /\ raw.people >= 1 /\ raw.people <= 10
    /\ Len(raw.start_point.address) >= 2 /\ Len(raw.start_point.address) <= 200
    /\ raw.start_point.lat >= -90 /\ raw.start_point.lat <= 90
    /\ raw.start_point.lon >= -180 /\ raw.start_point.lon <= 180

\* payload.model_dump() of a submission that passed FieldsValid
model_dump(raw) ==
    [raw EXCEPT !.phone = normalize_phone(@), !.tg = normalize_tg(@)]

\* latitude first
geo_point_lat_lon(lat, lon) == [type |-> "Point", coordinates |-> <<lat, lon>>]

\* doc["start_point"]["geo"]
geo_point(lat, lon) == [type |-> "Point", coordinates |-> <<lon, lat>>]

\* the document create_request builds before the phone check
build_doc(raw, now) ==
    LET d == model_dump(raw)
    IN  [name |-> d.name, phone |-> d.phone, tg |-> d.tg, day |-> d.day,
         earliest_time |-> d.earliest_time, people |-> d.people,
         created_at |-> now,
         start_point |-> [address |-> d.start_point.address,
                          lat |-> d.start_point.lat, lon |-> d.start_point.lon,
                          geo |-> geo_point(d.start_point.lat, d.start_point.lon)]]

\* the lower bound off by one
phone_digits_ok_from_9(phone) ==
    LET digits == DigitsOf(phone)
    IN  9 <= Len(digits) /\ Len(digits) <= 15

\* the soft phone check of create_request: 10..15 digits
phone_digits_ok(phone) ==
    LET digits == DigitsOf(phone)
    IN  10 <= Len(digits) /\ Len(digits) <= 15

\* the document as stored: insert_one adds the _id
with_id(doc, oid) ==
    [_id |-> oid, name |-> doc.name, phone |-> doc.phone, tg |-> doc.tg,
     day |-> doc.day, earliest_time |-> doc.earliest_time,
     people |-> doc.people, created_at |-> doc.created_at,
     start_point |-> doc.start_point]

---------------------------------------------------------------------------
(* Submissions the model offers to POST /api/ride-request *)

\* a request body, every field of RideRequestIn and StartPoint
RideRequest(name, phone, tg, day, earliest_time, people, address, lat, lon) ==
    [name |-> name, phone |-> phone, tg |-> tg, day |-> day,
     earliest_time |-> earliest_time, people |-> people,
     start_point |-> [address |-> address, lat |-> lat, lon |-> lon]]

Name1 == <<"A", "n", "n">>
Time1 == <<"0", "9", ":", "0", "0">>
Address1 == <<"X", "1">>

\* a body with a valid name, time and address
Submission(phone, tg, day, people, lat, lon) ==
    RideRequest(Name1, phone, tg, day, Time1, people, Address1, lat, lon)

Phone11 == <<"8", "9", "1", "6", "1", "2", "3", "4", "5", "6", "7">>
Phone10 == <<" ", "9", "1", "6", "-", "1", "2", "3", "4", "5", "6", "7">>
Phone9 == <<"+", "7", "(", "9", "1", "6", ")", "1", "2", "3", "4", "5">>
Phone16 == Rep("2", 16)
Phone3 == <<"1", "2", "3">>
PhoneArabic == <<"U+0660", "U+0661", "U+0662", "U+0663", "U+0664",
                 "U+0665", "U+0666", "U+0667", "U+0668", "U+0669">>

Valid1 == Submission(Phone11, <<"@", "a">>, "30", 1, 55, 37)
Valid2 == Submission(Phone10, <<>>, "31", 2, -33, 151)

ValidSubmissions == {Valid1, Valid2}

Submissions ==
    ValidSubmissions \cup
    { Submission(Phone9, <<>>, "30", 1, 55, 37),
      Submission(Phone16, <<>>, "31", 1, 55, 37),
      Submission(Phone3, <<>>, "30", 1, 55, 37) }

\* bodies a field constraint refuses: an empty name, a name of 101
\* characters, a time without its leading zero, a one-letter address
RefusedByFields ==
    { RideRequest(<<>>, Phone11, <<>>, "30", Time1, 1, Address1, 55, 37),
      RideRequest(Rep("a", 101), Phone11, <<>>, "30", Time1, 1, Address1, 55, 37),
      RideRequest(Name1, Phone11, <<>>, "30", <<"9", ":", "0", "0">>, 1, Address1, 55, 37),
      RideRequest(Name1, Phone11, <<>>, "30", Time1, 1, <<"X">>, 55, 37) }

\* a phone of ten Arabic-Indic digits, a handle between line breaks, and a
\* time whose hour is written with KAWI DIGIT ZERO (Unicode 15.0)
ValidUnicode ==
    RideRequest(Name1, PhoneArabic, <<"\n", "@", "a", "\r", "\n">>, "30",
                <<"U+11F50", "9", ":", "0", "0">>, 1, Address1, 55, 37)

---------------------------------------------------------------------------
(* HTTP responses *)

Ok(id) == [status |-> 200, body |-> [ok |-> TRUE, id |-> id]]
OkHealth == [status |-> 200, body |-> [ok |-> TRUE]]
OkCount(total, people) ==
    [status |-> 200, body |-> [ok |-> TRUE, count |-> total, people |-> people]]
HTTPException(status, detail) == [status |-> status, body |-> [detail |-> detail]]
RequestValidationError == [status |-> 422, body |-> [detail |-> "validation"]]
\* global_exception_handler
ServerError == [status |-> 500, body |-> [ok |-> FALSE, error |-> "Server error"]]

\* what a failing Store call raises inside a handler
StoreError == [type |-> "PyMongoError", text |-> "localhost:27017: connection refused"]

\* a handler that answers with str(exc)
global_exception_handler_str(exc) ==
    [status |-> 500, body |-> [ok |-> FALSE, error |-> exc.text]]

\* @app.exception_handler(Exception): the same body whatever was raised
global_exception_handler(exc) == ServerError

---------------------------------------------------------------------------
(* Suspended handlers: the event loop holds a bag of coroutines, each       *)
(* recorded with the await it is suspended at                               *)

Suspend(r) == inflight' = inflight (+) SetToBag({r})
Resume(r, r2) == inflight' = (inflight (-) SetToBag({r})) (+) SetToBag({r2})
Finish(r) == inflight' = inflight (-) SetToBag({r})
Suspended == BagToSet(inflight)

\* the handlers of requests and updates among the suspended coroutines (the
\* others are background tasks, at most one per inserted submission)
Handlers == [r \in {x \in Suspended : x.op # "notify"} |-> inflight[r]]

\* a new request or update is taken up while fewer than MaxInflight are
\* being handled
CanAccept == BagCardinality(Handlers) < MaxInflight

\* where a background task is while its sendMessage call is out: awaiting a
\* worker thread ("to_thread"), or inside urlopen itself ("urlopen")
SendPcs == {"to_thread", "urlopen"}

\* a coroutine inside a blocking call holds the service's event loop until
\* the call returns; one suspended at an await does not
blocks_loop(r) == r.op = "notify" /\ r.pc = "urlopen"

\* the event loop of the request service is free to run a handler
LoopFree == \A r \in Suspended : ~blocks_loop(r)

\* what a step sends out: the handler's input, its output and the number of
\* Store calls the handler issued; Silent when the step sends nothing
Finished(op, in, out, calls) == [op |-> op, in |-> in, out |-> out, calls |-> calls]
Silent == Finished("none", <<>>, <<>>, 0)

\* a Store call either completes or raises (connectivity failure)
StoreUp == BOOLEAN

\* a pipeline that sums 1 per document instead of its people
SumPeopleOnes(docs) == Cardinality(docs)

\* the $project/$group pipeline of count(): the sum of people, 0 when empty
RECURSIVE SumPeople(_)
SumPeople(docs) ==
    IF docs = {} THEN 0
    ELSE LET d == CHOOSE x \in docs : TRUE
         IN  d.people + SumPeople(docs \ {d})

---------------------------------------------------------------------------
(* Notification dispatcher (app.py) *)

\* the chat id left out of the test
_telegram_enabled_token_only == TELEGRAM_BOT_TOKEN # ""

_telegram_enabled == TELEGRAM_BOT_TOKEN # "" /\ TELEGRAM_CHAT_ID # ""

\* what urlopen / the Telegram API can answer to one sendMessage call
SendOutcomes == {"ok_true", "ok_false", "not_json", "http_error", "network_error"}
SendFailures == {"ok_false", "http_error", "network_error"}

\* _telegram_send_message_sync: returns None or raises
_telegram_send_message_sync(outcome) ==
    CASE outcome = "network_error" -> "raise URLError"
      [] outcome = "http_error" -> "raise RuntimeError"
      [] outcome = "not_json" -> "return"
      [] outcome = "ok_false" -> "raise RuntimeError"
      [] OTHER -> "return"

\* the lines of the message notify_telegram_new_request builds: the handle
\* stripped, given its "@", and "-" when there is none
notify_lines(doc, request_id) ==
    LET tg0 == strip(doc.tg)
        tg == IF tg0 # <<>> /\ ~startswith(tg0, "@") THEN <<"@">> \o tg0 ELSE tg0
    IN  [id |-> request_id, phone |-> doc.phone,
         tg |-> IF tg = <<>> THEN <<"-">> ELSE tg, day |-> doc.day,
         time |-> doc.earliest_time, start |-> doc.start_point.address]

\* no try/except around the send: the exception leaves the coroutine
notify_result_uncaught(sent) == sent

\* the try/except around asyncio.to_thread in notify_telegram_new_request:
\* how the coroutine ends given how the send ended
notify_result(sent) == IF sent = "return" THEN "return" ELSE "logged"

---------------------------------------------------------------------------
(* Request service (app.py) *)

\* datetime.now(timezone.utc): the minute, and within it one tick per
\* submission, so that later readings are larger
TicksPerMinute == MaxCreate + 1
utcnow == utc_minute * TicksPerMinute + created_seq

\* a minute of wall-clock time passes (the clock is followed for as long as
\* a submission can still read it)
minute_passes ==
    /\ utc_minute < MaxMinute
    /\ created_seq < MaxCreate
    /\ utc_minute' = utc_minute + 1
    /\ last' = Silent
    /\ UNCHANGED <<env, store, created_seq, inflight, outbox, tgvars, phonevars,
                   answered>>

\* POST /api/ride-request, up to the await of insert_one
create_request(raw) ==
    /\ LoopFree
    /\ CanAccept
    /\ IF ~FieldsValid(raw)
       THEN /\ last' = Finished("create", raw, RequestValidationError, 0)
            /\ UNCHANGED <<inflight, created_seq>>
       ELSE LET doc == build_doc(raw, utcnow)
            IN  IF ~phone_digits_ok(doc.phone)
                THEN /\ last' = Finished("create", raw,
                                         HTTPException(422, "Invalid phone"), 0)
                     /\ UNCHANGED <<inflight, created_seq>>
                ELSE /\ created_seq < MaxCreate
                     /\ created_seq' = created_seq + 1
                     /\ Suspend([op |-> "create", pc |-> "insert_one",
                                 in |-> raw, doc |-> doc])
                     /\ last' = Silent
    /\ UNCHANGED <<env, store, outbox, tgvars, phonevars, utc_minute, answered>>

\* add_task placed before the insert: the task is queued whatever insert_one does
add_task_before_insert(doc, request_id, inserted) ==
    IF _telegram_enabled
    THEN {[op |-> "notify", pc |-> "queued", doc |-> doc,
           request_id |-> request_id]}
    ELSE {}

\* background_tasks.add_task(...): reached only when insert_one returned
add_task(doc, request_id, inserted) ==
    IF inserted /\ _telegram_enabled
    THEN {[op |-> "notify", pc |-> "queued", doc |-> doc,
           request_id |-> request_id]}
    ELSE {}

\* insert_one completes or raises; then add_task and the response
create_request_insert(r, up) ==
    /\ LoopFree
    /\ r \in Suspended /\ r.op = "create" /\ r.pc = "insert_one"
    /\ IF up
       THEN /\ col' = col \cup {with_id(r.doc, next_oid)}
            /\ next_oid' = next_oid + 1
            /\ people_log' = Append(people_log, r.doc.people)
            /\ UNCHANGED deleted
            /\ last' = Finished("create", r.in, Ok(next_oid), 1)
            /\ answered' = answered \cup {Ok(next_oid)}
       ELSE /\ last' = Finished("create", r.in, global_exception_handler(StoreError), 1)
            /\ UNCHANGED <<store, answered>>
    /\ inflight' = (inflight (-) SetToBag({r}))
                       (+) SetToBag(add_task(r.doc, next_oid, up))
    /\ UNCHANGED <<env, created_seq, outbox, tgvars, phonevars, utc_minute>>

\* a send wrapped in one retry: sendMessage called a second time
to_thread_retry(calls, request_id) ==
    calls (+) SetToBag({request_id}) (+) SetToBag({request_id})

\* asyncio.to_thread(_telegram_send_message_sync, ...): one sendMessage call
to_thread(calls, request_id) == calls (+) SetToBag({request_id})

\* _telegram_send_message_sync(...) called in the coroutine itself
send_in_coroutine == "urlopen"

\* await asyncio.to_thread(...): the call runs in a worker thread and the
\* coroutine is suspended until the thread is done
await_to_thread == "to_thread"

\* the background task starts: notify_telegram_new_request up to to_thread
notify_telegram_new_request(r) ==
    /\ LoopFree
    /\ r \in Suspended /\ r.op = "notify" /\ r.pc = "queued"
    /\ IF ~_telegram_enabled
       THEN /\ Finish(r)
            /\ last' = Finished("notify", [request_id |-> r.request_id,
                                            outcome |-> "disabled"], "return", 0)
            /\ UNCHANGED outbox
       ELSE /\ Resume(r, [r EXCEPT !.pc = await_to_thread])
            /\ outbox' = to_thread(outbox, r.request_id)
            /\ last' = Silent
    /\ UNCHANGED <<env, store, created_seq, tgvars, phonevars, utc_minute, answered>>

\* the sendMessage call ends; the task ends with it
notify_send_done(r, outcome) ==
    /\ r \in Suspended /\ r.op = "notify" /\ r.pc \in SendPcs
    /\ Finish(r)
    /\ last' = Finished("notify", [request_id |-> r.request_id,
                                    outcome |-> outcome],
                        notify_result(_telegram_send_message_sync(outcome)), 0)
    /\ UNCHANGED <<env, store, created_seq, outbox, tgvars, phonevars, utc_minute, answered>>

\* GET /api/health
health ==
    /\ LoopFree
    /\ CanAccept
    /\ last' = Finished("health", <<>>, OkHealth, 0)
    /\ UNCHANGED <<env, store, created_seq, inflight, outbox, tgvars, phonevars, utc_minute, answered>>

\* every id taken as well formed
ObjectId_is_valid_any(request_id) == TRUE

\* ObjectId.is_valid
ObjectId_is_valid(request_id) == request_id # MalformedId

\* request.headers.get("X-Delete-Token", ""); headers is <<>> or <<value>>
header_get(headers) == IF headers = <<>> THEN "" ELSE headers[1]

\* the guard without its "not BOT_DELETE_TOKEN" half
delete_forbidden_compare_only(token) == token # BOT_DELETE_TOKEN

\* the guard of delete_request: TRUE when the request is refused
delete_forbidden(token) == BOT_DELETE_TOKEN = "" \/ token # BOT_DELETE_TOKEN

\* a result read as "one deleted" whatever the Store found
deleted_count_always(oid) == 1

\* col.delete_one({"_id": ...}): the documents left, and deleted_count
delete_one(oid) == {d \in col : d._id # oid}
deleted_count(oid) == Cardinality({d \in col : d._id = oid})

DeleteHeaders == {<<>>, <<"s3cret">>, <<"wrong">>}
RequestIds == {MalformedId} \cup Oids

\* DELETE /api/ride-request/{request_id}, up to the await of delete_one
delete_request(request_id, headers) ==
    LET token == header_get(headers)
        in == [request_id |-> request_id, headers |-> headers]
    IN  /\ LoopFree
        /\ CanAccept
        /\ IF delete_forbidden(token)
           THEN /\ last' = Finished("delete", in, HTTPException(403, "Forbidden"), 0)
                /\ UNCHANGED inflight
           ELSE IF ~ObjectId_is_valid(request_id)
                THEN /\ last' = Finished("delete", in,
                                         HTTPException(400, "Invalid id"), 0)
                     /\ UNCHANGED inflight
                ELSE /\ Suspend([op |-> "delete", pc |-> "delete_one", in |-> in])
                     /\ last' = Silent
        /\ UNCHANGED <<env, store, created_seq, outbox, tgvars, phonevars, utc_minute, answered>>

\* delete_one completes or raises; then the response
delete_request_done(r, up) ==
    /\ LoopFree
    /\ r \in Suspended /\ r.op = "delete" /\ r.pc = "delete_one"
    /\ Finish(r)
    /\ IF up
       THEN /\ col' = delete_one(r.in.request_id)
            /\ deleted' = IF deleted_count(r.in.request_id) = 0
                          THEN deleted ELSE deleted \cup {r.in.request_id}
            /\ last' = Finished("delete", r.in,
                                IF deleted_count(r.in.request_id) = 0
                                THEN HTTPException(404, "Not found")
                                ELSE Ok(r.in.request_id), 1)
       ELSE /\ last' = Finished("delete", r.in, global_exception_handler(StoreError), 1)
            /\ UNCHANGED <<col, deleted>>
    /\ UNCHANGED <<env, next_oid, people_log, created_seq, outbox, tgvars, phonevars, utc_minute, answered>>

\* GET /api/count arrives: the handler awaits count_documents
count ==
    /\ LoopFree
    /\ CanAccept
    /\ Suspend([op |-> "count", pc |-> "count_documents",
                in |-> [inserts_before |-> Len(people_log)], total |-> 0])
    /\ last' = Silent
    /\ UNCHANGED <<env, store, created_seq, outbox, tgvars, phonevars, utc_minute, answered>>

\* count_documents({}) completes or raises; the handler awaits the aggregate
count_documents(r, up) ==
    /\ LoopFree
    /\ r \in Suspended /\ r.op = "count" /\ r.pc = "count_documents"
    /\ IF up
       THEN /\ Resume(r, [r EXCEPT !.pc = "aggregate", !.total = Cardinality(col)])
            /\ last' = Silent
       ELSE /\ Finish(r)
            /\ last' = Finished("count", r.in, global_exception_handler(StoreError), 1)
    /\ UNCHANGED <<env, store, created_seq, outbox, tgvars, phonevars, utc_minute, answered>>

\* a count that reads both figures at once, when the aggregate completes
count_aggregate_one_read(r, up) ==
    /\ LoopFree
    /\ r \in Suspended /\ r.op = "count" /\ r.pc = "aggregate"
    /\ Finish(r)
    /\ last' = Finished("count", r.in,
                        IF up THEN OkCount(Cardinality(col), SumPeople(col))
                        ELSE global_exception_handler(StoreError), 2)
    /\ UNCHANGED <<env, store, created_seq, outbox, tgvars, phonevars, utc_minute, answered>>

\* the aggregate completes or raises; then the response
count_aggregate(r, up) ==
    /\ LoopFree
    /\ r \in Suspended /\ r.op = "count" /\ r.pc = "aggregate"
    /\ Finish(r)
    /\ last' = Finished("count", r.in,
                        IF up THEN OkCount(r.total, SumPeople(col))
                        ELSE global_exception_handler(StoreError), 2)
    /\ UNCHANGED <<env, store, created_seq, outbox, tgvars, phonevars, utc_minute, answered>>

---------------------------------------------------------------------------
(* Admin command router (bot.py) *)

Users == {1, 2}

\* str(user_id)
str(user_id) == CASE user_id = 1 -> "1" [] user_id = 2 -> "2" [] OTHER -> "?"

\* an access check that lets everyone in
_is_allowed_anyone(user_id) == TRUE

_is_allowed(user_id) == IF BOT_ALLOWED = {} THEN TRUE ELSE str(user_id) \in BOT_ALLOWED

\* reply texts (transliterated)
Refusal == "Dostup zapreshchyon."
Menu == "Gotovo. Dostupnye deystviya:"
Participants == "Uchastnikov: {total}"
Listing == "{_fmt_request(d)}..."
Empty == "Poka pusto."
Usage == "Ukazhi id: /delete <id>"
BadId == "Nekorrektnyi id."
Deleted == "Udaleno."
NotFound == "Ne naideno."
NotUnderstood == "Komanda ne ponyata. Est /count, /last, /delete <id>."

reply_text(text, data) == [text |-> text, data |-> data]

\* free texts an operator may send, and (text or "").strip().lower() of each
Texts == {"Skolko uchastnikov?", " POSLEDNIE 5 ", "privet"}
strip_lower(text) ==
    CASE text = "Skolko uchastnikov?" -> "skolko uchastnikov?"
      [] text = " POSLEDNIE 5 " -> "poslednie 5"
      [] OTHER -> text

Command(user, name, args) ==
    [user |-> user, kind |-> "command", command |-> name, args |-> args, text |-> ""]
TextMessage(user, text) ==
    [user |-> user, kind |-> "text", command |-> "", args |-> <<>>, text |-> text]

DeleteCommands ==
    {Command(u, "delete", <<>>) : u \in Users}
        \cup {Command(u, "delete", <<rid>>) : u \in Users, rid \in RequestIds}

Updates ==
    {Command(u, c, <<>>) : u \in Users, c \in {"start", "count", "last"}}
        \cup DeleteCommands
        \cup {TextMessage(u, t) : u \in Users, t \in Texts}

\* datetime.fromisoformat(created).strftime("%Y-%m-%d %H:%M"): the minute.
\* (create_request always stores an ISO timestamp, so the except branch,
\* which shows the stored text as it is, is not taken for its records.)
strftime_minute(created) == created \div TicksPerMinute

\* _fmt_request: the fields of one rendered record
_fmt_request(doc) ==
    LET tg0 == IF doc.tg = <<>> THEN <<"-">> ELSE doc.tg
        tg == IF tg0 # <<>> /\ ~startswith(tg0, "@") THEN <<"@">> \o tg0 ELSE tg0
    IN  [id |-> doc._id, tel |-> doc.phone, tg |-> tg, day |-> doc.day,
         time |-> doc.earliest_time, address |-> doc.start_point.address,
         created |-> strftime_minute(doc.created_at)]

\* find(...).sort("created_at", -1).limit(limit)
RECURSIVE _last(_, _)
_last(docs, limit) ==
    IF docs = {} \/ limit = 0 THEN <<>>
    ELSE LET d == CHOOSE x \in docs : \A y \in docs : y.created_at <= x.created_at
         IN  <<d>> \o _last(docs \ {d}, limit - 1)

RECURSIVE MapFmt(_)
MapFmt(docs) ==
    IF docs = <<>> THEN <<>> ELSE <<_fmt_request(Head(docs))>> \o MapFmt(Tail(docs))

\* a handler that ends without a Store call
BotDone(update, replies) ==
    /\ last' = Finished("bot", update, replies, 0)
    /\ UNCHANGED inflight

\* a handler that suspends at a Store call
BotAwait(update, handler) ==
    /\ Suspend([op |-> "bot", pc |-> handler, in |-> update])
    /\ last' = Silent

start(update) ==
    IF ~_is_allowed(update.user)
    THEN BotDone(update, <<reply_text(Refusal, <<>>)>>)
    ELSE BotDone(update, <<reply_text(Menu, <<>>)>>)

count_cmd(update) ==
    IF ~_is_allowed(update.user)
    THEN BotDone(update, <<reply_text(Refusal, <<>>)>>)
    ELSE BotAwait(update, "_count")

last_cmd(update) ==
    IF ~_is_allowed(update.user)
    THEN BotDone(update, <<reply_text(Refusal, <<>>)>>)
    ELSE BotAwait(update, "_last")

\* /delete without the access check
delete_cmd_unchecked(update) ==
    IF update.args = <<>>
    THEN BotDone(update, <<reply_text(Usage, <<>>)>>)
    ELSE IF ~ObjectId_is_valid(update.args[1])
         THEN BotDone(update, <<reply_text(BadId, <<>>)>>)
         ELSE BotAwait(update, "delete_one")

delete_cmd(update) ==
    IF ~_is_allowed(update.user)
    THEN BotDone(update, <<reply_text(Refusal, <<>>)>>)
    ELSE IF update.args = <<>>
         THEN BotDone(update, <<reply_text(Usage, <<>>)>>)
         ELSE IF ~ObjectId_is_valid(update.args[1])
              THEN BotDone(update, <<reply_text(BadId, <<>>)>>)
              ELSE BotAwait(update, "delete_one")

message_router(update) ==
    LET text == strip_lower(update.text)
    IN  IF text = "skolko uchastnikov?" THEN count_cmd(update)
        ELSE IF text = "poslednie 5" THEN last_cmd(update)
        ELSE BotDone(update, <<reply_text(NotUnderstood, <<>>)>>)

\* the handlers registered in main(): an update runs up to its first Store await
handle_update(update) ==
    /\ CanAccept
    /\ CASE update.kind = "text" -> message_router(update)
         [] update.kind = "command" /\ update.command = "start" -> start(update)
         [] update.kind = "command" /\ update.command = "count" -> count_cmd(update)
         [] update.kind = "command" /\ update.command = "last" -> last_cmd(update)
         [] OTHER -> delete_cmd(update)
    /\ UNCHANGED <<env, store, created_seq, outbox, tgvars, phonevars, utc_minute, answered>>

\* count_cmd resumes after _count()
count_cmd_done(r, up) ==
    /\ r \in Suspended /\ r.op = "bot" /\ r.pc = "_count"
    /\ Finish(r)
    /\ last' = Finished("bot", r.in,
                        IF up THEN <<reply_text(Participants, Cardinality(col))>>
                        ELSE <<>>, 1)
    /\ UNCHANGED <<env, store, created_seq, outbox, tgvars, phonevars, utc_minute, answered>>

\* last_cmd resumes after _last()
last_cmd_done(r, up) ==
    /\ r \in Suspended /\ r.op = "bot" /\ r.pc = "_last"
    /\ Finish(r)
    /\ last' = Finished("bot", r.in,
                        IF ~up THEN <<>>
                        ELSE IF _last(col, 5) = <<>>
                             THEN <<reply_text(Empty, <<>>)>>
                             ELSE <<reply_text(Listing, MapFmt(_last(col, 5)))>>, 1)
    /\ UNCHANGED <<env, store, created_seq, outbox, tgvars, phonevars, utc_minute, answered>>

\* delete_cmd resumes after delete_one
delete_cmd_done(r, up) ==
    /\ r \in Suspended /\ r.op = "bot" /\ r.pc = "delete_one"
    /\ Finish(r)
    /\ IF up
       THEN /\ col' = delete_one(r.in.args[1])
            /\ deleted' = IF deleted_count(r.in.args[1]) = 0
                          THEN deleted ELSE deleted \cup {r.in.args[1]}
            /\ last' = Finished("bot", r.in,
                                IF deleted_count(r.in.args[1]) # 0
                                THEN <<reply_text(Deleted, <<>>)>>
                                ELSE <<reply_text(NotFound, <<>>)>>, 1)
       ELSE /\ last' = Finished("bot", r.in, <<>>, 1)
            /\ UNCHANGED <<col, deleted>>
    /\ UNCHANGED <<env, next_oid, people_log, created_seq, outbox, tgvars, phonevars, utc_minute, answered>>

---------------------------------------------------------------------------
(* Specifications *)

\* the state after both modules are imported, for the given environments
InitWith(tokens, chats, secrets, allow_lists) ==
    /\ TELEGRAM_BOT_TOKEN \in tokens
    /\ TELEGRAM_CHAT_ID \in chats
    /\ BOT_DELETE_TOKEN \in secrets
    /\ BOT_ALLOWED \in allow_lists
    /\ col = {}
    /\ next_oid = 1
    /\ created_seq = 0
    /\ inflight = EmptyBag
    /\ last = Silent
    /\ outbox = EmptyBag
    /\ people_log = <<>>
    /\ deleted = {}
    /\ tg_seen = <<>>
    /\ phone_seen = <<>>
    /\ utc_minute = 0
    /\ answered = {}

Submit(subs) ==
    \/ \E raw \in subs : create_request(raw)
    \/ \E r \in Suspended, up \in StoreUp : create_request_insert(r, up)

Notify ==
    \/ \E r \in Suspended : notify_telegram_new_request(r)
    \/ \E r \in Suspended, outcome \in SendOutcomes : notify_send_done(r, outcome)

Count ==
    \/ count
    \/ \E r \in Suspended, up \in StoreUp : count_documents(r, up)
    \/ \E r \in Suspended, up \in StoreUp : count_aggregate(r, up)

Delete(ids, headers) ==
    \/ \E rid \in ids, h \in headers : delete_request(rid, h)
    \/ \E r \in Suspended, up \in StoreUp : delete_request_done(r, up)

Bot(updates) ==
    \/ \E update \in updates : handle_update(update)
    \/ \E r \in Suspended, up \in StoreUp : count_cmd_done(r, up)
    \/ \E r \in Suspended, up \in StoreUp : last_cmd_done(r, up)
    \/ \E r \in Suspended, up \in StoreUp : delete_cmd_done(r, up)

BotDelete ==
    \/ \E update \in DeleteCommands : handle_update(update)
    \/ \E r \in Suspended, up \in StoreUp : delete_cmd_done(r, up)

\* the whole system, every environment
Init ==
    /\ InitWith({"", "123:abc"}, {"", "-100"}, {"", "s3cret"}, {{}, {"1"}})
    /\ tg_v = <<>>
    /\ phone_v = <<>>
Next ==
    \/ minute_passes
    \/ Submit(Submissions)
    \/ Notify
    \/ health
    \/ Count
    \/ Delete(RequestIds, DeleteHeaders)
    \/ Bot(Updates)
Spec == Init /\ [][Next]_vars

\* the intake path: submissions, their notifications, and authorized deletes
InitNotify ==
    /\ InitWith({"", "123:abc"}, {"", "-100"}, {"s3cret"}, {{}})
    /\ tg_v = <<>>
    /\ phone_v = <<>>
NextNotify ==
    \/ Submit(Submissions)
    \/ Notify
    \/ Delete({1}, {<<"s3cret">>})
SpecNotify == InitNotify /\ [][NextNotify]_vars

\* the same with the event loop running every background task it holds and
\* every worker thread's call ending (urlopen has a timeout)
FairNotify ==
    /\ WF_vars(\E r \in Suspended : notify_telegram_new_request(r))
    /\ WF_vars(\E r \in Suspended, outcome \in SendOutcomes : notify_send_done(r, outcome))
NextNotifyFair ==
    \/ Submit({Valid1, Submission(Phone9, <<>>, "30", 1, 55, 37)})
    \/ Notify
    \/ Delete({1}, {<<"s3cret">>})
SpecNotifyFair == InitNotify /\ [][NextNotifyFair]_vars /\ FairNotify

\* requests handled while sends are out, with the credentials configured:
\* the external API does not answer, so a sendMessage call stays out until
\* urlopen's timeout ends it
InitStalled ==
    /\ InitWith({"123:abc"}, {"-100"}, {"s3cret"}, {{}})
    /\ tg_v = <<>>
    /\ phone_v = <<>>
NextStalled ==
    \/ Submit({Valid1})
    \/ \E r \in Suspended : notify_telegram_new_request(r)
    \/ \E r \in Suspended : notify_send_done(r, "network_error")
    \/ Count
    \/ Delete({1}, {<<"s3cret">>})
SpecStalled == InitStalled /\ [][NextStalled]_vars

\* the collection: submissions, counts and authorized deletes
InitCount ==
    /\ InitWith({""}, {""}, {"s3cret"}, {{}})
    /\ tg_v = <<>>
    /\ phone_v = <<>>
NextCount ==
    \/ Submit(Submissions)
    \/ Count
    \/ Delete({1, 2}, {<<"s3cret">>})
SpecCount == InitCount /\ [][NextCount]_vars

\* deletion: the HTTP endpoint and the bot's /delete on the same records
InitDelete ==
    /\ InitWith({""}, {""}, {"", "s3cret"}, {{}, {"1"}})
    /\ tg_v = <<>>
    /\ phone_v = <<>>
NextDelete ==
    \/ Submit({Valid1})
    \/ Delete(RequestIds, DeleteHeaders)
    \/ BotDelete
SpecDelete == InitDelete /\ [][NextDelete]_vars

\* the operator bot, every kind of update from both users: the commands, a
\* /delete without an id, with a malformed id and with the first record's
\* id, both free-text shortcuts and a text that is neither
BotUpdates ==
    {Command(u, c, <<>>) : u \in Users, c \in {"start", "count", "last"}}
        \cup {Command(u, "delete", a) : u \in Users,
                                        a \in {<<>>, <<MalformedId>>, <<1>>}}
        \cup {TextMessage(u, t) : u \in Users, t \in Texts}
InitBot ==
    /\ InitWith({""}, {""}, {""}, {{}, {"1"}})
    /\ tg_v = <<>>
    /\ phone_v = <<>>
NextBot ==
    \/ minute_passes
    \/ Submit({Valid1})
    \/ Bot(BotUpdates)
SpecBot == InitBot /\ [][NextBot]_vars

\* the tg field validator, applied and re-applied to one raw value
TgAlphabet == {"@", " ", "\t", "\n", "a"}
TgInputs == UNION {[1..n -> TgAlphabet] : n \in 0..MaxTgLen}

InitTg ==
    /\ InitWith({""}, {""}, {""}, {{}})
    /\ tg_v \in TgInputs
    /\ phone_v = <<>>

validate_tg ==
    /\ Len(tg_seen) < 2
    /\ tg_seen' = Append(tg_seen, normalize_tg(IF tg_seen = <<>> THEN tg_v
                                                ELSE tg_seen[Len(tg_seen)]))
    /\ UNCHANGED <<env, store, created_seq, inflight, last, outbox, tg_v, phonevars, utc_minute, answered>>

NextTg == validate_tg
SpecTg == InitTg /\ [][NextTg]_vars

\* the phone field validator, applied and re-applied to one raw value
PhoneAlphabet == {"+", " ", "8", "-", "\n", "U+0668"}
PhoneInputs ==
    {head \o Rep("1", n) \o tail :
        head \in UNION {[1..k -> PhoneAlphabet] : k \in 0..MaxPhoneHead},
        n \in 0..MaxPhoneTail,
        tail \in {<<>>, <<" ">>, <<"-", "8">>}}

InitPhone ==
    /\ InitWith({""}, {""}, {""}, {{}})
    /\ tg_v = <<>>
    /\ phone_v \in PhoneInputs

validate_phone ==
    /\ Len(phone_seen) < 2
    /\ phone_seen' = Append(phone_seen,
                            normalize_phone(IF phone_seen = <<>> THEN phone_v
                                            ELSE phone_seen[Len(phone_seen)]))
    /\ UNCHANGED <<env, store, created_seq, inflight, last, outbox, tgvars, phone_v, utc_minute, answered>>

NextPhone == validate_phone
SpecPhone == InitPhone /\ [][NextPhone]_vars

\* every HTTP operation, with and without the delete token, the Store
\* failing or not
InitErrors ==
    /\ InitWith({""}, {""}, {"s3cret"}, {{}})
    /\ tg_v = <<>>
    /\ phone_v = <<>>
NextErrors ==
    \/ Submit({Valid1, ValidUnicode} \cup RefusedByFields)
    \/ health
    \/ Count
    \/ Delete({MalformedId, 1}, {<<"s3cret">>, <<"wrong">>})
SpecErrors == InitErrors /\ [][NextErrors]_vars

\* everything that reads or writes the collection: both processes, a
\* configured delete token and an allow-list holding user 1
FrameUpdates ==
    {Command(1, c, <<>>) : c \in {"start", "count", "last"}}
        \cup {Command(1, "delete", <<1>>), Command(2, "delete", <<2>>)}
InitFrame ==
    /\ InitWith({""}, {""}, {"s3cret"}, {{"1"}})
    /\ tg_v = <<>>
    /\ phone_v = <<>>
NextFrame ==
    \/ minute_passes
    \/ Submit({Valid1, Submission(Phone9, <<>>, "30", 1, 55, 37)})
    \/ health
    \/ Count
    \/ Delete({1}, {<<"s3cret">>, <<"wrong">>})
    \/ Bot(FrameUpdates)
SpecFrame == InitFrame /\ [][NextFrame]_vars

\* one record as the intake stores it, for every handle submitted, shown by
\* the bot's last and by the notification
InitHandle ==
    /\ InitWith({"123:abc"}, {"-100"}, {""}, {{}})
    /\ tg_v \in TgInputs
    /\ phone_v = <<>>

render_handle ==
    LET doc == with_id(build_doc(Submission(Phone11, tg_v, "30", 1, 55, 37), utcnow), 1)
    IN  /\ last = Silent
        /\ last' = Finished("render", doc,
                            [last |-> _fmt_request(doc),
                             notification |-> notify_lines(doc, doc._id)], 0)
        /\ UNCHANGED <<env, store, created_seq, inflight, outbox, tgvars, phonevars, utc_minute, answered>>

NextHandle ==
    \/ minute_passes
    \/ render_handle
SpecHandle == InitHandle /\ [][NextHandle]_vars

---------------------------------------------------------------------------
(* Properties *)

\* ids the Store has ever held
Inserted == {d._id : d \in col} \cup deleted

\* the background tasks among the suspended coroutines
NotifyTasks(bag) == [r \in {x \in BagToSet(bag) : x.op = "notify"} |-> bag[r]]

RECURSIVE SumSeq(_)
SumSeq(q) == IF q = <<>> THEN 0 ELSE Head(q) + SumSeq(Tail(q))

\* C1, state part: every scheduled notification and every sendMessage call
\* carries the id of a record that was inserted before
NotifiedAfterInsert ==
    /\ \A r \in Suspended : r.op = "notify" => r.request_id \in Inserted
    /\ BagToSet(outbox) \subseteq Inserted

\* C1, step part: a submission answered 422 or 500 schedules and sends nothing
RejectedSchedulesNothing ==
    (last'.op = "create" /\ last'.out.status # 200)
        => (NotifyTasks(inflight') = NotifyTasks(inflight) /\ outbox' = outbox)

\* C1: in create_request a notification is scheduled only after that
\* submission's insert succeeded: a submission that fails validation or whose
\* insert fails never gets one, and every notification scheduled or sent
\* carries the id of a record inserted earlier.
C1_NotifyOnlyAfterInsert ==
    []NotifiedAfterInsert /\ [][RejectedSchedulesNothing]_vars

\* a failed insert is answered while an earlier submission's notification
\* has been sent
C1_Witness ==
    /\ last.op = "create" /\ last.out = ServerError
    /\ outbox # EmptyBag

\* C2: a failed delivery (network error, non-2xx answer, ok=false) leaves the
\* collection as it was; the submission was answered {ok:true, id} before the
\* send and that answer stands, no other response being sent; and
\* notify_telegram_new_request ends normally, the failure only logged.
C2_DeliveryFailureAbsorbed ==
    [][\A r \in Suspended :
          (/\ r.op = "notify" /\ r.pc \in SendPcs
           /\ inflight' = inflight (-) SetToBag({r})
           /\ last'.op = "notify"
           /\ last'.in.request_id = r.request_id
           /\ last'.in.outcome \in SendFailures)
          => (/\ col' = col
              /\ [status |-> 200, body |-> [ok |-> TRUE, id |-> r.request_id]]
                     \in answered
              /\ answered' = answered
              /\ last'.out = "logged")]_vars

\* a network error was absorbed and the record it was about is still stored
C2_Witness ==
    /\ last.op = "notify" /\ last.in.outcome = "network_error"
    /\ last.out = "logged"
    /\ \E d \in col : d._id = last.in.request_id

\* the X-Delete-Token of a delete request is missing, wrong, or there is no
\* configured secret to compare it with
TokenRejected(headers) ==
    BOT_DELETE_TOKEN = "" \/ headers = <<>> \/ headers[1] # BOT_DELETE_TOKEN

\* C3: an HTTP delete whose token is missing or wrong, or any delete when no
\* secret is configured, is answered 403 and leaves the collection unchanged,
\* whether the id is malformed, absent or that of a stored record.
C3_DeleteForbidden ==
    [][(last'.op = "delete" /\ TokenRejected(last'.in.headers))
          => (/\ last'.out = [status |-> 403, body |-> [detail |-> "Forbidden"]]
              /\ last'.calls = 0
              /\ col' = col)]_vars

\* a delete of a stored record was refused
C3_Witness ==
    /\ last.op = "delete" /\ last.out.status = 403
    /\ \E d \in col : d._id = last.in.request_id

\* C4: with no deletes, a count request that arrives after the N submissions
\* completed their inserts reports count = N and people = p_1 + ... + p_N,
\* however the submissions interleaved.
C4_CountAfterInserts ==
    (/\ last.op = "count" /\ last.out.status = 200
     /\ deleted = {}
     /\ last.in.inserts_before = Len(people_log))
        => (/\ last.out.body.count = Len(people_log)
            /\ last.out.body.people = SumSeq(people_log))

\* a count that arrived after two inserts reported both
C4_Witness ==
    /\ last.op = "count" /\ last.out.status = 200
    /\ deleted = {}
    /\ last.in.inserts_before = 2 /\ Len(people_log) = 2
    /\ last.out.body.count = 2 /\ last.out.body.people = 3

\* C5, for one delete of an inserted id: it reports success when the record
\* is still stored, which removes it, and not-found when an earlier delete
\* removed it
DeleteOutcome(rid, success, not_found) ==
    rid \in Inserted =>
        IF rid \in deleted THEN not_found ELSE success /\ rid \in deleted'

\* C5 as stated: among authorized deletes of one inserted id, over HTTP and
\* over the bot's /delete, sequential or concurrent, exactly one reports
\* success and every other reports not-found (404, 'Ne naideno.'), never a
\* server error.
C5_OneSuccessOthersNotFound ==
    [][\A r \in Suspended :
          /\ (/\ r.op = "delete"
              /\ inflight' = inflight (-) SetToBag({r})
              /\ last'.op = "delete" /\ last'.in = r.in)
             => DeleteOutcome(r.in.request_id,
                              last'.out = Ok(r.in.request_id),
                              last'.out = HTTPException(404, "Not found"))
          /\ (/\ r.op = "bot" /\ r.pc = "delete_one"
              /\ inflight' = inflight (-) SetToBag({r})
              /\ last'.op = "bot" /\ last'.in = r.in)
             => DeleteOutcome(r.in.args[1],
                              last'.out = <<reply_text(Deleted, <<>>)>>,
                              last'.out = <<reply_text(NotFound, <<>>)>>)]_vars

\* C5 amended: among authorized deletes of one inserted id, over HTTP and
\* over the bot's /delete, sequential or concurrent, each one whose delete_one
\* call completes reports success if the record is still stored, removing
\* it, and not-found (404, 'Ne naideno.') if an earlier delete removed it,
\* never a server error; so at most one reports success, and a removed id
\* stays removed.  A delete whose delete_one call raises removes nothing and
\* is answered 500 over HTTP and not at all by the bot.
C5_ExactlyOneDeleteSucceeds ==
    [][/\ deleted \subseteq deleted'
       /\ \A r \in Suspended :
             /\ delete_request_done(r, TRUE)
                   => DeleteOutcome(r.in.request_id,
                                    last'.out = Ok(r.in.request_id),
                                    last'.out = HTTPException(404, "Not found"))
             /\ delete_request_done(r, FALSE)
                   => /\ last'.out.status = 500
                      /\ col' = col /\ deleted' = deleted
             /\ delete_cmd_done(r, TRUE)
                   => DeleteOutcome(r.in.args[1],
                                    last'.out = <<reply_text(Deleted, <<>>)>>,
                                    last'.out = <<reply_text(NotFound, <<>>)>>)
             /\ delete_cmd_done(r, FALSE)
                   => /\ last'.out = <<>>
                      /\ col' = col /\ deleted' = deleted]_vars

\* an HTTP delete removed a record while a bot /delete of the same id is
\* still awaiting the Store
C5_Witness ==
    /\ last.op = "delete" /\ last.out.status = 200
    /\ \E r \in Suspended :
          /\ r.op = "bot" /\ r.pc = "delete_one"
          /\ r.in.args[1] = last.in.request_id

\* the sender of an update passes the allow-list as the specification words it
Permitted(user) == BOT_ALLOWED = {} \/ str(user) \in BOT_ALLOWED

\* the update is one that count, last or delete handles (a command, or one
\* of the two free-text shortcuts)
StoreCommand(update) ==
    \/ update.kind = "command" /\ update.command \in {"count", "last", "delete"}
    \/ update.kind = "text" /\ update.text \in {"Skolko uchastnikov?", " POSLEDNIE 5 "}

\* the update is a /delete without an id, or with a malformed one
DeleteWithoutId(update) ==
    /\ update.kind = "command" /\ update.command = "delete"
    /\ (update.args = <<>> \/ update.args[1] = MalformedId)

\* C6 as stated: a count, last or delete handler touches the Store if and
\* only if the allow-list is empty or contains the sender.
C6_StoreIffPermitted ==
    (last.op = "bot" /\ StoreCommand(last.in))
        => (last.calls > 0 <=> Permitted(last.in.user))

\* C6 amended: a count, last or delete handler touches the Store only for a
\* permitted sender; for a permitted sender count and last always do, and
\* delete does exactly when it carries a well-formed id.
C6_StoreOnlyIfPermitted ==
    /\ \A r \in Suspended : r.op = "bot" => Permitted(r.in.user)
    /\ (last.op = "bot" /\ StoreCommand(last.in))
          => (last.calls > 0 <=> (Permitted(last.in.user) /\ ~DeleteWithoutId(last.in)))

\* a sender outside the allow-list asked for the count and was refused
\* without a Store call
C6_Witness ==
    /\ last.op = "bot" /\ last.in.kind = "command" /\ last.in.command = "count"
    /\ ~Permitted(last.in.user)
    /\ last.calls = 0
    /\ col # {}

\* C7: whatever the message, a sender absent from a configured allow-list
\* gets the fixed refusal as the only reply, and nothing else happens.
C7_RefusalOnly ==
    (last.op = "bot" /\ BOT_ALLOWED # {} /\ str(last.in.user) \notin BOT_ALLOWED)
        => (last.out = <<reply_text(Refusal, <<>>)>> /\ last.calls = 0)

\* C8 as stated: every submission whose normalized phone has fewer than 10
\* or more than 15 digits is answered 422 'Invalid phone' before any insert,
\* so every stored phone has 10 to 15 digits.
C8_InvalidPhoneAlways ==
    /\ \A d \in col : Len(DigitsOf(d.phone)) \in 10..15
    /\ (last.op = "create" /\ Len(DigitsOf(normalize_phone(last.in.phone))) \notin 10..15)
          => /\ last.out = HTTPException(422, "Invalid phone")
             /\ last.calls = 0

\* C8 amended: every submission whose normalized phone has fewer than 10 or
\* more than 15 digits is answered 422 before any insert: with the detail
\* 'Invalid phone' when the body passes the field constraints (the phone's
\* 5..32 length among them), and with the validation error of the field
\* constraints otherwise.  So no handler awaits an insert with such a phone
\* and every stored phone has 10 to 15 digits.
C8_PhoneDigits ==
    /\ \A d \in col : Len(DigitsOf(d.phone)) \in 10..15
    /\ \A r \in Suspended :
          r.op = "create" => Len(DigitsOf(normalize_phone(r.in.phone))) \in 10..15
    /\ (last.op = "create" /\ Len(DigitsOf(normalize_phone(last.in.phone))) \notin 10..15)
          => /\ last.out.status = 422
             /\ last.calls = 0
             /\ last.out.body.detail
                    = IF FieldsValid(last.in) THEN "Invalid phone" ELSE "validation"

\* a phone of valid length but 9 digits was refused
C8_Witness ==
    /\ last.op = "create"
    /\ Len(last.in.phone) \in 5..32
    /\ Len(DigitsOf(normalize_phone(last.in.phone))) = 9
    /\ last.out = HTTPException(422, "Invalid phone")

\* C9: every stored record's geo is the GeoJSON point [lon, lat] of its own
\* start_point, which are the lon and lat that were submitted.
C9_GeoLonLat ==
    /\ \A d \in col :
          d.start_point.geo = [type |-> "Point",
                               coordinates |-> <<d.start_point.lon, d.start_point.lat>>]
    /\ (last.op = "create" /\ last.out.status = 200)
          => \E d \in col :
                /\ d._id = last.out.body.id
                /\ d.start_point.geo.coordinates
                       = <<last.in.start_point.lon, last.in.start_point.lat>>

\* after a delete, a stored record submitted with lat -33, lon 151
C9_Witness ==
    /\ deleted # {}
    /\ \E d \in col : d.start_point.geo.coordinates = <<151, -33>>

\* C10: normalizing an already normalized handle changes nothing.
C10_TgIdempotent ==
    Len(tg_seen) = 2 => tg_seen[2] = tg_seen[1]

\* C11: normalizing an already normalized phone changes nothing, in each
\* of the three branches (11 digits from "8" rewritten to "+7...", a leading
\* "+" kept with the digits, otherwise the digits alone).
C11_PhoneIdempotent ==
    Len(phone_seen) = 2 => phone_seen[2] = phone_seen[1]

\* an 11-digit number written with trunk prefix 8 and punctuation was
\* rewritten to +7... and normalized again
C11_Witness ==
    /\ Len(phone_seen) = 2
    /\ phone_v = <<" ", "8", "-">> \o Rep("1", 10) \o <<" ">>
    /\ phone_seen[1] = <<"+", "7">> \o Rep("1", 10)

\* C12, the three outcomes of a delete of rid answered out
DeleteAnswer(rid, out) ==
    LET hit == {d \in col : d._id = rid}
    IN  IF rid = MalformedId
        THEN /\ out = [status |-> 400, body |-> [detail |-> "Invalid id"]]
             /\ last'.calls = 0
             /\ col' = col
        ELSE IF hit = {}
             THEN /\ out = [status |-> 404, body |-> [detail |-> "Not found"]]
                  /\ col' = col
             ELSE /\ out = [status |-> 200, body |-> [ok |-> TRUE, id |-> rid]]
                  /\ Cardinality(hit) = 1
                  /\ col' = col \ hit

\* C12 as stated: an HTTP delete carrying the correct token is answered 400
\* 'Invalid id' for a malformed id, 404 'Not found' for a well-formed id of
\* no stored record, and {ok: true, id} for a stored record, removing
\* exactly that record and leaving every other as it was.
C12_DeleteOutcomesAlways ==
    [][(last'.op = "delete" /\ ~TokenRejected(last'.in.headers))
          => DeleteAnswer(last'.in.request_id, last'.out)]_vars

\* C12 amended: an HTTP delete carrying the correct token is answered 400
\* 'Invalid id' for a malformed id, without a Store call; for a well-formed
\* id whose delete_one call completes, 404 'Not found' when no record has
\* it, the collection unchanged, and {ok: true, id} when one has, exactly
\* that record removed and every other left as it was; and when the
\* delete_one call raises, 500 with the collection unchanged.
C12_DeleteOutcomes ==
    [][(last'.op = "delete" /\ ~TokenRejected(last'.in.headers))
          => IF \E r \in Suspended : delete_request_done(r, FALSE)
             THEN /\ last'.out.status = 500
                  /\ last'.in.request_id # MalformedId
                  /\ last'.calls = 1
                  /\ col' = col
             ELSE DeleteAnswer(last'.in.request_id, last'.out)]_vars

\* one of two stored records was deleted and the other is still stored
C12_Witness ==
    /\ last.op = "delete" /\ last.out.status = 200
    /\ last.in.request_id \in deleted
    /\ \E d \in col : d._id # last.in.request_id

\* the bot token or the chat id is empty
CredentialsAbsent == TELEGRAM_BOT_TOKEN = "" \/ TELEGRAM_CHAT_ID = ""

\* a submission the validator accepts
ValidSubmission(raw) == FieldsValid(raw) /\ phone_digits_ok(model_dump(raw).phone)

\* the step answers a submission {ok: true, id} with its record stored under
\* that id
AnsweredInserted ==
    /\ last'.out.status = 200
    /\ last'.out.body.ok
    /\ \E d \in col' \ col : d._id = last'.out.body.id /\ d.phone = model_dump(last'.in).phone

\* no notification is scheduled and no sendMessage call has been made
NothingSent == outbox = EmptyBag /\ \A r \in Suspended : r.op # "notify"

\* C13 as stated: with the bot token or the chat id empty, every valid
\* submission is still inserted and answered {ok: true, id}, and no
\* sendMessage call is ever made.
C13_AlwaysInserted ==
    /\ [](CredentialsAbsent => NothingSent)
    /\ [][(CredentialsAbsent /\ last'.op = "create" /\ ValidSubmission(last'.in))
             => AnsweredInserted]_vars

\* C13 amended: with the bot token or the chat id empty, no sendMessage call
\* is ever made and none is scheduled; every valid submission whose
\* insert_one call completes is inserted and answered {ok: true, id}, and
\* one whose insert_one call raises is answered 500 with nothing stored.
C13_NoCredentialsNoSend ==
    /\ [](CredentialsAbsent => NothingSent)
    /\ [][(CredentialsAbsent /\ last'.op = "create" /\ ValidSubmission(last'.in))
             => IF \E r \in Suspended : create_request_insert(r, FALSE)
                THEN last'.out.status = 500 /\ col' = col
                ELSE AnsweredInserted]_vars

\* with a token but no chat id, a second submission was inserted and answered
C13_Witness ==
    /\ TELEGRAM_BOT_TOKEN # "" /\ TELEGRAM_CHAT_ID = ""
    /\ last.op = "create" /\ last.out.status = 200
    /\ Cardinality(col) = 2
    /\ outbox = EmptyBag

\* operations of the HTTP service
HttpOps == {"create", "health", "delete", "count"}

\* the step is a Store call raising inside the handler that awaits it
StoreRaises(r) ==
    \/ create_request_insert(r, FALSE)
    \/ delete_request_done(r, FALSE)
    \/ count_documents(r, FALSE)
    \/ count_aggregate(r, FALSE)

\* C14: a Store call that raises inside an HTTP handler (insert, delete,
\* either read of count) is answered with status 500 and the body
\* {ok: false, error: 'Server error'}, nothing of the exception in it, and
\* the collection is left as it was; every other response keeps its own
\* status (200, 400, 403, 404, 422) and is never turned into a 500.
C14_GenericServerError ==
    [][/\ \A r \in Suspended :
             StoreRaises(r)
                => /\ last'.out = [status |-> 500,
                                   body |-> [ok |-> FALSE, error |-> "Server error"]]
                   /\ col' = col
       /\ (/\ last'.op \in HttpOps
           /\ \A r \in Suspended : ~StoreRaises(r))
             => last'.out.status \in {200, 400, 403, 404, 422}]_vars

\* the second read of a count failed after the first succeeded, with a
\* record stored
C14_Witness ==
    /\ last.op = "count" /\ last.calls = 2
    /\ last.out.status = 500
    /\ col # {}

\* C15, safety part: sendMessage is called at most once per request id
AtMostOneSend == \A rid \in Oids : CopiesIn(rid, outbox) <= 1

\* C15, liveness part: once a submission is answered {ok: true, id} with
\* credentials configured, sendMessage is eventually called for that id
SendEventuallyAttempted ==
    \A rid \in Oids :
        (_telegram_enabled /\ last.op = "create" /\ last.out = Ok(rid))
            ~> BagIn(rid, outbox)

\* C15: with credentials configured and the event loop running its tasks,
\* every successful submission leads to exactly one sendMessage call: one is
\* eventually made, and never a second (no retry, whatever the first did).
C15_ExactlyOneSend ==
    []AtMostOneSend /\ SendEventuallyAttempted

\* the send for the first record failed and ended, and the send for the
\* second record has been made since: one call each
C15_Witness ==
    /\ last.op = "notify" /\ last.in.outcome = "network_error"
    /\ BagCardinality(outbox) = 2
    /\ BagToSet(outbox) = {1, 2}
    /\ \E r \in Suspended : r.op = "notify" /\ r.pc = "to_thread"

\* sendMessage calls that are out and have not returned
StalledSends ==
    [r \in {x \in Suspended : x.op = "notify" /\ x.pc \in SendPcs} |-> inflight[r]]

\* C16, arrivals: a new count, delete or (below the bound on submissions)
\* submission is taken up by its handler
ArrivalsAccepted ==
    CanAccept
        => /\ ENABLED count
           /\ ENABLED delete_request(1, <<"s3cret">>)
           /\ created_seq < MaxCreate => ENABLED create_request(Valid1)

\* C16, completion: every handler awaiting the Store is run as soon as the
\* Store answers its call, and the answer is the handler's response
HandlersResumable ==
    \A r \in Suspended :
        /\ (r.op = "create" /\ r.pc = "insert_one")
              => ENABLED (create_request_insert(r, TRUE) /\ last'.out = Ok(next_oid))
        /\ (r.op = "delete" /\ r.pc = "delete_one")
              => ENABLED (delete_request_done(r, TRUE) /\ last'.out.status \in {200, 404})
        /\ (r.op = "count" /\ r.pc = "count_documents")
              => ENABLED count_documents(r, TRUE)
        /\ (r.op = "count" /\ r.pc = "aggregate")
              => ENABLED (count_aggregate(r, TRUE) /\ last'.out.status = 200)

\* C16: while one or more sendMessage calls are out, however long they take,
\* no coroutine holds the event loop: a submission, count or delete arriving
\* meanwhile is taken up, and each one being handled is completed and
\* answered when the Store answers its call, with no send having returned.
C16_SendDoesNotBlock ==
    StalledSends # EmptyBag
        => (LoopFree /\ ArrivalsAccepted /\ HandlersResumable)

\* with the sends for both records out and neither back, a count that
\* arrived after them has been answered and a delete is being handled
C16_Witness ==
    /\ BagCardinality(StalledSends) = 2
    /\ last.op = "count" /\ last.out.status = 200
    /\ last.in.inserts_before = 2
    /\ last.out.body.count = 2
    /\ \E r \in Suspended : r.op = "delete"

\* people of the first k inserts
PeopleAfter(k) == SumSeq(SubSeq(people_log, 1, k))

\* C17, state part: with no deletes, the count a handler holds between its
\* two reads is the number of inserts at its first read: at least those
\* before it arrived, at most those so far
FirstReadHeld ==
    deleted = {}
        => \A r \in Suspended :
              (r.op = "count" /\ r.pc = "aggregate")
                 => r.total \in r.in.inserts_before..Len(people_log)

\* C17, step part: with no deletes, the answer pairs the count of the first
\* read with the people of all inserts up to the second read
TwoReadsAnswered ==
    \A r \in Suspended :
        (/\ r.op = "count" /\ r.pc = "aggregate"
         /\ inflight' = inflight (-) SetToBag({r})
         /\ last'.op = "count" /\ last'.in = r.in /\ last'.out.status = 200
         /\ deleted = {})
        => /\ last'.out.body.count = r.total
           /\ last'.out.body.people = PeopleAfter(Len(people_log))

\* C17: count reads the number of records and the sum of people in two
\* separate Store calls, each answered from the collection as it is when
\* that call runs, so an insert landing between them gives an answer whose
\* count and people were never true of the collection together.
C17_TwoIndependentReads ==
    []FirstReadHeld /\ [][TwoReadsAnswered]_vars

\* an insert landed between the two reads: with no deletes ever, the answer
\* pairs count 0 with people 2, and after no number of inserts did the
\* collection hold that pair
C17_Witness ==
    /\ last.op = "count" /\ last.out.status = 200
    /\ deleted = {}
    /\ last.out.body.count = 0 /\ last.out.body.people = 2
    /\ \A k \in 0..Len(people_log) :
          ~(last.out.body.count = k /\ last.out.body.people = PeopleAfter(k))

\* C18, no update: a record stored before and after a step is the same
\* record, field for field, and an id is never given to a second record
RecordsNeverUpdated ==
    /\ \A d \in col' : (\E c \in col : c._id = d._id) => d \in col
    /\ \A d \in col' \ col : d._id \notin Inserted

\* C18, removal: a step that removes a record is an HTTP delete with the
\* correct token, or a /delete of a permitted sender, answered as a success
\* and removing the record of the id it names and no other
RemovedOnlyByDelete ==
    col \ col' # {}
        => /\ col' \subseteq col
           /\ \/ /\ last'.op = "delete"
                 /\ ~TokenRejected(last'.in.headers)
                 /\ last'.out = Ok(last'.in.request_id)
                 /\ \A d \in col \ col' : d._id = last'.in.request_id
              \/ /\ last'.op = "bot"
                 /\ last'.in.kind = "command" /\ last'.in.command = "delete"
                 /\ Permitted(last'.in.user)
                 /\ last'.out = <<reply_text(Deleted, <<>>)>>
                 /\ \A d \in col \ col' : d._id = last'.in.args[1]

\* C18, readers and refusals: health, count, the bot's start, count, last
\* and free text, a submission not answered 200 and a delete not answered
\* as a success leave the collection as it was
ReadersLeaveStore ==
    (\/ last'.op \in {"health", "count"}
     \/ last'.op = "bot" /\ ~(last'.in.kind = "command" /\ last'.in.command = "delete")
     \/ last'.op = "bot" /\ last'.out # <<reply_text(Deleted, <<>>)>>
     \/ last'.op = "create" /\ last'.out.status # 200
     \/ last'.op = "delete" /\ last'.out.status # 200)
        => col' = col

\* C18: no operation changes a stored record; records leave the collection
\* only through a successful HTTP delete with the correct token or a
\* permitted sender's /delete; health, count, the bot's start, count and
\* last, rejected submissions and rejected deletes change nothing.
C18_NoUpdateDeleteOnly ==
    [][RecordsNeverUpdated /\ RemovedOnlyByDelete /\ ReadersLeaveStore]_vars

\* a /delete from a sender outside the allow-list was refused, after a
\* permitted /delete removed the other record, and the record it named is
\* still stored
C18_Witness ==
    /\ last.op = "bot" /\ last.in.kind = "command" /\ last.in.command = "delete"
    /\ ~Permitted(last.in.user)
    /\ last.out = <<reply_text(Refusal, <<>>)>>
    /\ deleted # {}
    /\ \E d \in col : d._id = last.in.args[1]

\* C19: the bot's last and the notification show a stored handle alike:
\* "@" and the handle when there is one, "-" when there is none.
C19_HandleShownAlike ==
    last.op = "render"
        => LET shown == IF last.in.tg = <<>> THEN <<"-">> ELSE <<"@">> \o last.in.tg
           IN  /\ last.out.last.tg = shown
               /\ last.out.notification.tg = shown

====
